---- MODULE Spec2Model ----
(***************************************************************************)
(* Harmonic Stack: the allocation engine of harmonic_launcher.py and the   *)
(* Operator Oversight coordinator of operator_oversight.py.                *)
(*                                                                         *)
(* Memory is counted in hundredths of a GB (2.5 GB = 250), and a reserve   *)
(* fraction in percent (0.20 = 20), so that gpu_mem_gb * (1 - reserve_pct) *)
(* is the integer gpu_mem_gb * (100 - reserve_pct).                        *)
(***************************************************************************)
EXTENDS Integers, Sequences, FiniteSets, TLC

VARIABLES
    \* allocate_stack: its arguments, its locals and its position
    models, hardware, min_parallel, model_specs, idx, available, allocation, apc,
    \* OperatorOversight: the fields of the object
    activity_log, successful_approaches, failed_approaches, active_profiles,
    groups_processed, total_suggestions_made, client,
    \* the workers that call it: where each one is, the call it has begun,
    \* the frame of its suspended get_context, the value it got back and how
    \* its request ended
    wpc, pending, frame, result, ended,
    \* the worker that occupies the event loop, if one does
    loop,
    \* how often each entry was handed to append by a completed call
    written

allocVars == <<models, hardware, min_parallel, model_specs, idx, available,
               allocation, apc>>

storeVars == <<activity_log, successful_approaches, failed_approaches,
               active_profiles>>

ovVars == <<activity_log, successful_approaches, failed_approaches,
            active_profiles, groups_processed, total_suggestions_made, client,
            wpc, pending, frame, result, ended, loop, written>>

vars == <<models, hardware, min_parallel, model_specs, idx, available,
          allocation, apc, activity_log, successful_approaches,
          failed_approaches, active_profiles, groups_processed,
          total_suggestions_made, client, wpc, pending, frame, result, ended,
          loop, written>>

(***************************************************************************)
(* Bounds of the model                                                     *)
(***************************************************************************)
MaxModels == 3
\* observe calls, and recorded approaches, of a run of the coordinator
MaxLog == 1
MaxApproaches == 3
\* calls begun by the threads of a ledger run
MaxCalls == 3
\* records held by the two approach lists when a context is asked for
MaxRecorded == 7

(***************************************************************************)
(* harmonic_launcher.py: catalogs                                          *)
(***************************************************************************)
MODELS ==
    [m \in {"executive", "operator", "technical_director", "research_director",
            "creative_director", "analyst", "coder", "architect",
            "qwen3:4b", "qwen3:8b", "qwen3:14b", "qwen3:30b-a3b"} |->
        CASE m \in {"executive", "operator", "qwen3:4b"} ->
                [base_gb |-> 250, kv_gb |-> 30, tier |-> 1, source |-> "qwen3:4b"]
          [] m \in {"technical_director", "research_director",
                    "creative_director", "qwen3:8b"} ->
                [base_gb |-> 520, kv_gb |-> 50, tier |-> 2, source |-> "qwen3:8b"]
          [] m = "analyst" ->
                [base_gb |-> 520, kv_gb |-> 50, tier |-> 3, source |-> "qwen3:8b"]
          [] m \in {"coder", "qwen3:14b"} ->
                [base_gb |-> 930, kv_gb |-> 80, tier |-> 3, source |-> "qwen3:14b"]
          [] m \in {"architect", "qwen3:30b-a3b"} ->
                [base_gb |-> 1800, kv_gb |-> 120, tier |-> 4,
                 source |-> "qwen3:30b-a3b"]]

PARALLEL_STEPS == <<24, 20, 16, 12, 8, 6, 4, 2, 1>>

HARDWARE_PROFILES ==
    [h \in {"dgx_spark", "generic_24gb", "generic_16gb"} |->
        CASE h = "dgx_spark" ->
                [gpu_mem_gb |-> 128, peak_parallel |-> 16, max_parallel |-> 32,
                 reserve_pct |-> 15]
          [] h = "generic_24gb" ->
                [gpu_mem_gb |-> 24, peak_parallel |-> 4, max_parallel |-> 8,
                 reserve_pct |-> 20]
          [] h = "generic_16gb" ->
                [gpu_mem_gb |-> 16, peak_parallel |-> 4, max_parallel |-> 6,
                 reserve_pct |-> 20]]

(***************************************************************************)
(* The inputs allocate_stack is run on: lists of catalog names of every    *)
(* tier and of a name the catalog does not hold, three shipped hardware    *)
(* profiles and a small card whose max_parallel lies below its peak.       *)
(***************************************************************************)
UnknownModel == "mystery"

ModelNames ==
    {"executive", "technical_director", "coder", "analyst", "architect",
     UnknownModel}

SmallCard ==
    [gpu_mem_gb |-> 8, peak_parallel |-> 4, max_parallel |-> 2, reserve_pct |-> 25]

HardwareInputs ==
    {HARDWARE_PROFILES[h] : h \in DOMAIN HARDWARE_PROFILES} \cup {SmallCard}

MinParallelInputs == {1, 2, 5}

ModelLists == UNION {[1..n -> ModelNames] : n \in 0..MaxModels}

(***************************************************************************)
(* harmonic_launcher.py: model_memory and the pieces of allocate_stack     *)
(***************************************************************************)
\* MODELS.get(m, MODELS['qwen3:4b']) of allocate_stack
SpecOf(m) == IF m \in DOMAIN MODELS THEN MODELS[m] ELSE MODELS["qwen3:4b"]

\* model_memory with another default than the documented one
model_memoryWrongDefault(model_name, parallel) ==
    LET spec == IF model_name \in DOMAIN MODELS THEN MODELS[model_name]
                ELSE MODELS["qwen3:8b"]
    IN  spec.base_gb + (parallel * spec.kv_gb)

\* model_memory: its own lookup, MODELS.get(model_name, MODELS.get('qwen3:4b'))
model_memory(model_name, parallel) ==
    LET spec == IF model_name \in DOMAIN MODELS THEN MODELS[model_name]
                ELSE MODELS["qwen3:4b"]
    IN  spec.base_gb + (parallel * spec.kv_gb)

\* gpu_mem * (1 - reserve)
InitialBudget(hw) == hw.gpu_mem_gb * (100 - hw.reserve_pct)

\* model_specs.sort(key = tier): a stable sort, so each name goes behind the
\* names of its own tier that precede it in the list
RECURSIVE SortPrefix(_, _)
SortPrefix(ms, n) ==
    IF n = 0 THEN <<>>
    ELSE LET before == SortPrefix(ms, n - 1)
             keep == SelectSeq(before,
                         LAMBDA x : SpecOf(x).tier <= SpecOf(ms[n]).tier)
             rest == SelectSeq(before,
                         LAMBDA x : SpecOf(x).tier > SpecOf(ms[n]).tier)
         IN  keep \o <<ms[n]>> \o rest

\* the list left in input order
SortByTierUnsorted(ms) == ms

\* the list sorted the wrong way round
SortByTierDescending(ms) ==
    LET sorted == SortPrefix(ms, Len(ms))
    IN  [i \in 1..Len(ms) |-> sorted[Len(ms) + 1 - i]]

SortByTier(ms) == SortPrefix(ms, Len(ms))

\* the target without the min() that holds it under max_parallel
TargetParallelUncapped(tier, hw, minp) ==
    LET peak == hw.peak_parallel
        raw  == IF tier = 1 THEN peak
                ELSE IF tier = 2 THEN (peak * 75) \div 100
                ELSE IF tier = 3 THEN (peak * 50) \div 100
                ELSE (peak * 33) \div 100
    IN  IF minp > raw THEN minp ELSE raw

\* the tier-based parallel target, clamped (int() truncates)
TargetParallel(tier, hw, minp) ==
    LET peak == hw.peak_parallel
        raw  == IF tier = 1 THEN peak
                ELSE IF tier = 2 THEN (peak * 75) \div 100
                ELSE IF tier = 3 THEN (peak * 50) \div 100
                ELSE (peak * 33) \div 100
        capped == IF raw < hw.max_parallel THEN raw ELSE hw.max_parallel
    IN  IF minp > capped THEN minp ELSE capped

\* the scan with a fit test that forgets the per-slot memory
RECURSIVE ScanStepsBaseOnly(_, _, _, _, _)
ScanStepsBaseOnly(i, model_name, target, minp, avail) ==
    IF i > Len(PARALLEL_STEPS) THEN 0
    ELSE LET p == PARALLEL_STEPS[i]
         IN  IF p > target
             THEN ScanStepsBaseOnly(i + 1, model_name, target, minp, avail)
             ELSE IF p < minp THEN 0
             ELSE IF model_memory(model_name, 0) <= avail THEN p
             ELSE ScanStepsBaseOnly(i + 1, model_name, target, minp, avail)

\* for p in PARALLEL_STEPS: continue above the target, break below
\* min_parallel, take the first p whose memory fits; 0 when the loop ends
RECURSIVE ScanSteps(_, _, _, _, _)
ScanSteps(i, model_name, target, minp, avail) ==
    IF i > Len(PARALLEL_STEPS) THEN 0
    ELSE LET p == PARALLEL_STEPS[i]
         IN  IF p > target THEN ScanSteps(i + 1, model_name, target, minp, avail)
             ELSE IF p < minp THEN 0
             ELSE IF model_memory(model_name, p) <= avail THEN p
             ELSE ScanSteps(i + 1, model_name, target, minp, avail)

FitParallel(model_name, hw, minp, avail) ==
    ScanSteps(1, model_name, TargetParallel(SpecOf(model_name).tier, hw, minp),
              minp, avail)

\* round(x, 1) on hundredths: to the nearest tenth, halves to even
Round1(x) ==
    LET q == x \div 10
        r == x % 10
    IN  IF r < 5 THEN q * 10
        ELSE IF r > 5 THEN (q + 1) * 10
        ELSE IF q % 2 = 0 THEN q * 10 ELSE (q + 1) * 10

AllocatedEntry(model_name, p) ==
    [parallel |-> p, memory_gb |-> Round1(model_memory(model_name, p)),
     tier |-> SpecOf(model_name).tier, source |-> SpecOf(model_name).source]

SkippedEntry(model_name) ==
    [parallel |-> 0, memory_gb |-> 0, tier |-> SpecOf(model_name).tier,
     source |-> SpecOf(model_name).source, status |-> "skipped"]

\* allocation[model_name] = entry
DictSet(d, k, v) == [x \in DOMAIN d \cup {k} |-> IF x = k THEN v ELSE d[x]]

EmptyDict == [x \in {} |-> 0]

\* the loop body without its "if not allocated" block
LoopBodyDropSkipped(model_name, hw, minp, avail, alloc) ==
    LET p == FitParallel(model_name, hw, minp, avail)
    IN  IF p > 0
        THEN [allocation |-> DictSet(alloc, model_name,
                                     AllocatedEntry(model_name, p)),
              available |-> avail - model_memory(model_name, p)]
        ELSE [allocation |-> alloc, available |-> avail]

\* lines 297-339: one iteration of the loop over model_specs
LoopBody(model_name, hw, minp, avail, alloc) ==
    LET p == FitParallel(model_name, hw, minp, avail)
    IN  IF p > 0
        THEN [allocation |-> DictSet(alloc, model_name,
                                     AllocatedEntry(model_name, p)),
              available |-> avail - model_memory(model_name, p)]
        ELSE [allocation |-> DictSet(alloc, model_name,
                                     SkippedEntry(model_name)),
              available |-> avail]

RECURSIVE RunLoop(_, _, _, _, _, _)
RunLoop(specs, i, hw, minp, avail, alloc) ==
    IF i > Len(specs) THEN [allocation |-> alloc, available |-> avail]
    ELSE LET r == LoopBody(specs[i], hw, minp, avail, alloc)
         IN  RunLoop(specs, i + 1, hw, minp, r.available, r.allocation)

\* the whole call: the returned map, and the budget left when it returns
allocate_stack(ms, hw, minp) ==
    RunLoop(SortByTier(ms), 1, hw, minp, InitialBudget(hw), EmptyDict)

(***************************************************************************)
(* operator_oversight.py: values                                           *)
(*                                                                         *)
(* A text is the first len characters of the source text src; a slice      *)
(* t[:cap] keeps src and cuts len.  A text made of lines ("\n".join) is    *)
(* the sequence of its lines, and the empty string is <<>>.                *)
(***************************************************************************)
Text(src, n) == [src |-> src, len |-> n]

EmptyText == Text("", 0)

\* a slice that keeps one character too many
TruncateOneMore(t, cap) == IF t.len <= cap + 1 THEN t ELSE Text(t.src, cap + 1)

\* t[:cap]
Truncate(t, cap) == IF t.len <= cap THEN t ELSE Text(t.src, cap)

\* a slice that keeps the newest n instead of the oldest
FirstNFromEnd(seq, n) ==
    SubSeq(seq, IF Len(seq) < n THEN 1 ELSE Len(seq) - n + 1, Len(seq))

\* seq[:n] and seq[-n:]
FirstN(seq, n) == SubSeq(seq, 1, IF Len(seq) < n THEN Len(seq) ELSE n)

LastN(seq, n) == SubSeq(seq, IF Len(seq) < n THEN 1 ELSE Len(seq) - n + 1, Len(seq))

\* the caps of the stored fields, of the rendered lines and of a briefing
DetailCap == 300
ProfileCap == 500
SuccessApproachCap == 400
SuccessProfileCap == 400
FailureApproachCap == 300
SuccessLineCap == 150
FailureLineCap == 100
SummaryLineCap == 120
OtherLineCap == 80
PromptProfileCap == 300
BriefingMinLen == 20

\* JSON values as Python sees them: a string (its source, its length and its
\* length once stripped), a number, None, and a key that is not there
PyStr(src, n, stripped) == [type |-> "str", src |-> src, len |-> n, stripped |-> stripped]

PyNum(n) == [type |-> "int", value |-> n]

PyNone == [type |-> "none"]

Absent == [type |-> "absent"]

\* bool(v)
Truthy(v) ==
    CASE v.type = "str" -> v.len > 0
      [] v.type = "int" -> v.value # 0
      [] OTHER -> FALSE

\* d.get(key, default)
DictGet(d, key, default) == IF d[key] = Absent THEN default ELSE d[key]

(***************************************************************************)
(* operator_oversight.py: the entries the observation methods write        *)
(***************************************************************************)
\* observe: the dict it appends (the "time" field, the clock read of the
\* call, is left out)
ObserveEntry(a) ==
    [task_id |-> a.task_id, stage |-> a.stage, model |-> a.model,
     category |-> a.category, detail |-> Truncate(a.detail, DetailCap)]

\* record_profile: the value it stores
ProfileEntry(a) == Truncate(a.profile, ProfileCap)

\* record_success: the dict it appends
SuccessEntry(a) ==
    [category |-> a.category, approach |-> Truncate(a.approach, SuccessApproachCap),
     profile |-> Truncate(a.profile, SuccessProfileCap), count |-> a.count]

\* record_failure: the dict it appends
FailureEntry(a) ==
    [category |-> a.category, approach |-> Truncate(a.approach, FailureApproachCap)]

\* an append that writes the list back as the call saw it when it began
ListAppendStale(list, seen, entry) == Append(SubSeq(list, 1, seen), entry)

\* list.append as a thread sees it: the entry goes behind whatever the list
\* holds at that moment, not behind what the call saw when it began
ListAppend(list, seen, entry) == Append(list, entry)

(***************************************************************************)
(* operator_oversight.py: _build_activity_summary, _generate,              *)
(* generate_briefing and the tier-1 text of get_context                    *)
(***************************************************************************)
SameCategory(seq, category) == SelectSeq(seq, LAMBDA r : r.category = category)

OtherCategory(seq, category) == SelectSeq(seq, LAMBDA r : r.category # category)

\* _build_activity_summary: the lines it joins
ActivitySummary(successes, failures, category) ==
    LET recent == LastN(successes, 5)
        cat_fails == LastN(SameCategory(failures, category), 3)
        other_fails == LastN(OtherCategory(failures, category), 2)
    IN  (IF successes # <<>>
         THEN <<[line |-> "SOLVED", groups |-> Len(successes)]>> \o
              [i \in DOMAIN recent |->
                  [line |-> "solved", category |-> recent[i].category,
                   approach |-> Truncate(recent[i].approach, SummaryLineCap),
                   count |-> recent[i].count]]
         ELSE <<>>)
        \o
        (IF cat_fails # <<>>
         THEN <<[line |-> "FAILED", category |-> category]>> \o
              [i \in DOMAIN cat_fails |->
                  [line |-> "failed",
                   approach |-> Truncate(cat_fails[i].approach, SummaryLineCap)]]
         ELSE <<>>)
        \o
        (IF other_fails # <<>>
         THEN <<[line |-> "Other failed approaches:"]>> \o
              [i \in DOMAIN other_fails |->
                  [line |-> "other", category |-> other_fails[i].category,
                   approach |-> Truncate(other_fails[i].approach, OtherLineCap)]]
         ELSE <<>>)

\* generate_briefing up to its await: the prompt, or nothing to ask
BriefingPrompt(successes, failures, category, profile, group_size) ==
    [activity |-> ActivitySummary(successes, failures, category),
     category |-> category, group_size |-> group_size,
     profile |-> Truncate(profile, PromptProfileCap)]

HasActivity(successes, failures, category) ==
    /\ ~(successes = <<>> /\ failures = <<>>)
    /\ ActivitySummary(successes, failures, category) # <<>>

\* _generate once the request has ended: what it returns.  Every exception
\* (a timeout, a transport error, a body that is not JSON, a payload that
\* is no dict) ends in "except Exception: return None"
Generate(transport, outcome) ==
    IF outcome.kind \in {"timeout", "transport", "malformed", "nondict"}
    THEN PyNone
    ELSE IF outcome.kind = "status" THEN PyNone
    ELSE IF transport = "httpx"
         THEN LET got == DictGet(outcome.data, "response", PyStr("", 0, 0))
              IN  IF ~Truthy(got)
                     /\ Truthy(DictGet(outcome.data, "thinking", PyNone))
                  THEN outcome.data["thinking"]
                  ELSE got
         ELSE DictGet(outcome.data, "response", PyStr("", 0, 0))

EmptyString == [marker |-> "", text |-> EmptyText]

\* the body with the length taken before the strip
BriefingBodyUnstripped(generated) ==
    IF ~Truthy(generated)
    THEN [exc |-> FALSE, value |-> EmptyString, counted |-> FALSE]
    ELSE IF generated.type # "str"
    THEN [exc |-> TRUE, value |-> EmptyString, counted |-> FALSE]
    ELSE IF generated.len > BriefingMinLen
    THEN [exc |-> FALSE,
          value |-> [marker |-> "[Operator notes]",
                     text |-> Text(generated.src, generated.stripped)],
          counted |-> TRUE]
    ELSE [exc |-> FALSE, value |-> EmptyString, counted |-> FALSE]

\* the body of generate_briefing's try: .strip() of what is no string raises
BriefingBody(generated) ==
    IF ~Truthy(generated)
    THEN [exc |-> FALSE, value |-> EmptyString, counted |-> FALSE]
    ELSE IF generated.type # "str"
    THEN [exc |-> TRUE, value |-> EmptyString, counted |-> FALSE]
    ELSE IF generated.stripped > BriefingMinLen
    THEN [exc |-> FALSE,
          value |-> [marker |-> "[Operator notes]",
                     text |-> Text(generated.src, generated.stripped)],
          counted |-> TRUE]
    ELSE [exc |-> FALSE, value |-> EmptyString, counted |-> FALSE]

\* generate_briefing with its try and except left out
generate_briefingNoCatch(generated) == BriefingBody(generated)

\* generate_briefing after its await: "except Exception: return ''"
generate_briefing(generated) ==
    LET body == BriefingBody(generated)
    IN  IF body.exc
        THEN [exc |-> FALSE, value |-> EmptyString, counted |-> FALSE]
        ELSE body

\* get_context, tier 1: the lines of mech_text
MechanicalContext(successes, failures, category) ==
    LET relevant_successes == FirstN(SameCategory(successes, category), 3)
        cat_failures == FirstN(SameCategory(failures, category), 3)
    IN  (IF relevant_successes # <<>>
         THEN <<[line |-> "Prior successes for similar tasks:"]>> \o
              [i \in DOMAIN relevant_successes |->
                  [line |-> "success",
                   approach |-> Truncate(relevant_successes[i].approach,
                                         SuccessLineCap),
                   count |-> relevant_successes[i].count]]
         ELSE <<>>)
        \o
        (IF cat_failures # <<>>
         THEN <<[line |-> "Prior failures (avoid):"]>> \o
              [i \in DOMAIN cat_failures |->
                  [line |-> "failure",
                   approach |-> Truncate(cat_failures[i].approach,
                                         FailureLineCap)]]
         ELSE <<>>)

\* the gate of tier 2 with an off-by-one
BriefingGateOffByOne(successes, failures) == Len(successes) + Len(failures) >= 1

\* get_context: total_approaches >= 2
BriefingGate(successes, failures) == Len(successes) + Len(failures) >= 2

\* the join without the filter that drops the blank parts
JoinPartsUnfiltered(mech_text, briefing) ==
    <<[part |-> "mechanical", lines |-> mech_text],
      [part |-> "briefing", text |-> briefing]>>

\* get_context: "\n\n".join of the parts that are not blank
JoinParts(mech_text, briefing) ==
    (IF mech_text # <<>> THEN <<[part |-> "mechanical", lines |-> mech_text]>>
     ELSE <<>>)
    \o
    (IF briefing # EmptyString THEN <<[part |-> "briefing", text |-> briefing]>>
     ELSE <<>>)

(***************************************************************************)
(* The workers and what they call the coordinator with                     *)
(***************************************************************************)
Workers == {"w1", "w2"}

NoWorker == "nobody"

\* a blocking request would keep the event loop with the caller
LoopWhileWaitingBlocking(w) == w

\* "await self._client.post(...)": the suspended call gives the loop back
LoopWhileWaiting(w) == NoWorker

Categories == {"spatial", "Spatial"}

ObserveInputs ==
    {[task_id |-> "group_1", stage |-> "failed", model |-> "solver",
      category |-> "spatial", detail |-> Text("mismatch", 301)]}

ProfileInputs ==
    {[task_id |-> "group_1", profile |-> Text("grid", 501)]}

SuccessInputs ==
    {[category |-> "spatial", approach |-> Text("bfs", 401), count |-> 3,
      profile |-> Text("grid", 401)]}

FailureInputs ==
    {[category |-> "Spatial", approach |-> Text("pixel", 301)]}

ContextInputs ==
    {[task_id |-> "group_2", category |-> c, profile |-> Text("similar", 301),
      group_size |-> 10] : c \in Categories}

\* the fields of a 200 response, and the ways a request ends
ResponseValues ==
    {Absent, PyNone, PyNum(5), PyStr("", 0, 0), PyStr("advice", 20, 20),
     PyStr("advice", 21, 21), PyStr("advice", 30, 15)}

ThinkingValues == {Absent, PyNum(5), PyStr("reasoning", 40, 40)}

FailureOutcomes ==
    {[kind |-> "timeout"], [kind |-> "transport"], [kind |-> "status"],
     [kind |-> "malformed"], [kind |-> "nondict"]}

Outcomes ==
    FailureOutcomes \cup
    {[kind |-> "ok", data |-> [response |-> r, thinking |-> t]] :
        r \in ResponseValues, t \in ThinkingValues}

\* a 200 response whose text field is a number, or is null with no text in
\* the reasoning field either
WronglyTyped ==
    {o \in Outcomes :
        /\ o.kind = "ok"
        /\ \/ o.data.response = PyNum(5)
           \/ /\ o.data.response = PyNone
              /\ o.data.thinking \in {Absent, PyNum(5)}}

\* the ways tier 2 fails
TierTwoFailures == FailureOutcomes \cup WronglyTyped

\* how a request ended
OutcomeClass(o) == IF o \in TierTwoFailures THEN "failed" ELSE "answered"

NoCall == [op |-> "none"]

NoFrame == [transport |-> "none"]

NoResult == <<[part |-> "none"]>>

\* what the threads of a ledger run call with, beside the inputs above
ThreadObserveInputs ==
    ObserveInputs \cup
    {[task_id |-> "group_2", stage |-> "starting", model |-> "analyst",
      category |-> "Spatial", detail |-> Text("rotation", 34)]}

ThreadSuccessInputs ==
    SuccessInputs \cup
    {[category |-> "Spatial", approach |-> Text("remap", 151), count |-> 1,
      profile |-> EmptyText]}

\* the calls a thread can begin, each with the entry it will hand to append
LedgerCalls ==
    {[op |-> "observe", entry |-> ObserveEntry(a)] : a \in ThreadObserveInputs}
    \cup
    {[op |-> "record_success", entry |-> SuccessEntry(a)] :
        a \in ThreadSuccessInputs}
    \cup
    {[op |-> "record_failure", entry |-> FailureEntry(a)] : a \in FailureInputs}

\* __init__: the state after construction
OversightInit ==
    /\ activity_log = <<>>
    /\ successful_approaches = <<>>
    /\ failed_approaches = <<>>
    /\ active_profiles = EmptyDict
    /\ groups_processed = 0
    /\ total_suggestions_made = 0
    /\ client = "none"
    /\ wpc = [w \in Workers |-> "idle"]
    /\ pending = [w \in Workers |-> NoCall]
    /\ frame = [w \in Workers |-> NoFrame]
    /\ result = [w \in Workers |-> NoResult]
    /\ ended = [w \in Workers |-> "none"]
    /\ loop = NoWorker
    /\ written = [c \in LedgerCalls |-> 0]

\* no allocation is running
AllocatorUnused ==
    /\ models = <<>>
    /\ hardware = HARDWARE_PROFILES["generic_24gb"]
    /\ min_parallel = 1
    /\ model_specs = <<>>
    /\ idx = 0
    /\ available = 0
    /\ allocation = EmptyDict
    /\ apc = "unused"

(***************************************************************************)
(* allocate_stack as a state machine: one step per loop iteration          *)
(***************************************************************************)
AllocInit ==
    /\ models \in ModelLists
    /\ hardware \in HardwareInputs
    /\ min_parallel \in MinParallelInputs
    /\ model_specs = <<>>
    /\ idx = 0
    /\ available = 0
    /\ allocation = EmptyDict
    /\ apc = "start"
    /\ OversightInit

\* lines 284-294: the budget and the sorted list
AllocBegin ==
    /\ apc = "start"
    /\ available' = InitialBudget(hardware)
    /\ allocation' = EmptyDict
    /\ model_specs' = SortByTier(models)
    /\ idx' = 1
    /\ apc' = "loop"
    /\ UNCHANGED <<models, hardware, min_parallel>>
    /\ UNCHANGED ovVars

\* lines 297-330: a candidate fits, the entry is committed
AllocCommit ==
    /\ apc = "loop"
    /\ idx <= Len(model_specs)
    /\ FitParallel(model_specs[idx], hardware, min_parallel, available) > 0
    /\ LET r == LoopBody(model_specs[idx], hardware, min_parallel, available,
                         allocation)
       IN  /\ allocation' = r.allocation
           /\ available' = r.available
    /\ idx' = idx + 1
    /\ UNCHANGED <<models, hardware, min_parallel, model_specs, apc>>
    /\ UNCHANGED ovVars

\* lines 332-339: no candidate fits, the model is recorded as skipped
AllocSkip ==
    /\ apc = "loop"
    /\ idx <= Len(model_specs)
    /\ FitParallel(model_specs[idx], hardware, min_parallel, available) = 0
    /\ LET r == LoopBody(model_specs[idx], hardware, min_parallel, available,
                         allocation)
       IN  /\ allocation' = r.allocation
           /\ available' = r.available
    /\ idx' = idx + 1
    /\ UNCHANGED <<models, hardware, min_parallel, model_specs, apc>>
    /\ UNCHANGED ovVars

\* line 341
AllocReturn ==
    /\ apc = "loop"
    /\ idx > Len(model_specs)
    /\ apc' = "done"
    /\ UNCHANGED <<models, hardware, min_parallel, model_specs, idx, available,
                   allocation>>
    /\ UNCHANGED ovVars

AllocNext == AllocBegin \/ AllocCommit \/ AllocSkip \/ AllocReturn

AllocSpec == AllocInit /\ [][AllocNext]_vars

(***************************************************************************)
(* The coordinator under asyncio: every worker is a task of one event      *)
(* loop, so a method runs from one await to the next without another task  *)
(* running in between.  The only await that suspends is the request of     *)
(* _generate.                                                              *)
(***************************************************************************)
TotalApproaches == Len(successful_approaches) + Len(failed_approaches)

\* initialize(): httpx is there and the client is made (without httpx,
\* _client stays None and _generate takes its aiohttp branch)
Initialize ==
    /\ loop = NoWorker
    /\ client = "none"
    /\ client' = "httpx"
    /\ UNCHANGED <<storeVars, groups_processed, total_suggestions_made, wpc,
                   pending, frame, result, ended, loop, written>>
    /\ UNCHANGED allocVars

Observe(a) ==
    /\ loop = NoWorker
    /\ Len(activity_log) < MaxLog
    /\ activity_log' = Append(activity_log, ObserveEntry(a))
    /\ UNCHANGED <<successful_approaches, failed_approaches, active_profiles,
                   groups_processed, total_suggestions_made, client, wpc,
                   pending, frame, result, ended, loop, written>>
    /\ UNCHANGED allocVars

RecordProfile(a) ==
    /\ loop = NoWorker
    /\ active_profiles' = DictSet(active_profiles, a.task_id, ProfileEntry(a))
    /\ UNCHANGED <<activity_log, successful_approaches, failed_approaches,
                   groups_processed, total_suggestions_made, client, wpc,
                   pending, frame, result, ended, loop, written>>
    /\ UNCHANGED allocVars

RecordSuccess(a) ==
    /\ loop = NoWorker
    /\ TotalApproaches < MaxApproaches
    /\ successful_approaches' = Append(successful_approaches, SuccessEntry(a))
    /\ UNCHANGED <<activity_log, failed_approaches, active_profiles,
                   groups_processed, total_suggestions_made, client, wpc,
                   pending, frame, result, ended, loop, written>>
    /\ UNCHANGED allocVars

RecordFailure(a) ==
    /\ loop = NoWorker
    /\ TotalApproaches < MaxApproaches
    /\ failed_approaches' = Append(failed_approaches, FailureEntry(a))
    /\ UNCHANGED <<activity_log, successful_approaches, active_profiles,
                   groups_processed, total_suggestions_made, client, wpc,
                   pending, frame, result, ended, loop, written>>
    /\ UNCHANGED allocVars

\* get_context when tier 2 asks nothing: it returns without suspending
GetContextDirect(w, a) ==
    /\ loop = NoWorker
    /\ wpc[w] = "idle"
    /\ ~(/\ BriefingGate(successful_approaches, failed_approaches)
         /\ HasActivity(successful_approaches, failed_approaches, a.category))
    /\ groups_processed' = groups_processed + 1
    /\ result' = [result EXCEPT ![w] =
          JoinParts(MechanicalContext(successful_approaches, failed_approaches,
                                      a.category),
                    EmptyString)]
    /\ wpc' = [wpc EXCEPT ![w] = "returned"]
    /\ ended' = [ended EXCEPT ![w] = "no request"]
    /\ UNCHANGED <<storeVars, total_suggestions_made, client, pending, frame,
                   loop, written>>
    /\ UNCHANGED allocVars

\* get_context up to the request of _generate, where it suspends
GetContextIssue(w, a) ==
    /\ loop = NoWorker
    /\ wpc[w] = "idle"
    /\ BriefingGate(successful_approaches, failed_approaches)
    /\ HasActivity(successful_approaches, failed_approaches, a.category)
    /\ groups_processed' = groups_processed + 1
    /\ frame' = [frame EXCEPT ![w] =
          [transport |-> IF client = "httpx" THEN "httpx" ELSE "aiohttp",
           mech_text |-> MechanicalContext(successful_approaches,
                                           failed_approaches, a.category),
           prompt |-> BriefingPrompt(successful_approaches, failed_approaches,
                                     a.category, a.profile, a.group_size)]]
    /\ wpc' = [wpc EXCEPT ![w] = "waiting"]
    /\ loop' = LoopWhileWaiting(w)
    /\ UNCHANGED <<storeVars, total_suggestions_made, client, pending, result,
                   ended, written>>
    /\ UNCHANGED allocVars

\* a resumed call that reads the stores again for its tier-1 text
ReturnedMechTextReread(fr, successes, failures) ==
    MechanicalContext(successes, failures, fr.prompt.category)

\* the tier-1 text a resumed call joins: its local mech_text, built before
\* the await; the stores are not read again
ReturnedMechText(fr, successes, failures) == fr.mech_text

\* the request has ended with outcome o: the rest of _generate, of
\* generate_briefing and of get_context
GetContextResume(w, o) ==
    /\ loop \in {NoWorker, w}
    /\ wpc[w] = "waiting"
    /\ LET briefing == generate_briefing(Generate(frame[w].transport, o))
       IN  /\ wpc' = [wpc EXCEPT ![w] =
                        IF briefing.exc THEN "raised" ELSE "returned"]
           /\ result' = [result EXCEPT ![w] =
                           IF briefing.exc THEN NoResult
                           ELSE JoinParts(ReturnedMechText(frame[w],
                                                           successful_approaches,
                                                           failed_approaches),
                                          briefing.value)]
           /\ total_suggestions_made' =
                 IF briefing.counted THEN total_suggestions_made + 1
                 ELSE total_suggestions_made
    /\ frame' = [frame EXCEPT ![w] = NoFrame]
    /\ ended' = [ended EXCEPT ![w] = OutcomeClass(o)]
    /\ loop' = NoWorker
    /\ UNCHANGED <<storeVars, groups_processed, client, pending, written>>
    /\ UNCHANGED allocVars

OversightNext ==
    \/ Initialize
    \/ \E a \in ObserveInputs : Observe(a)
    \/ \E a \in ProfileInputs : RecordProfile(a)
    \/ \E a \in SuccessInputs : RecordSuccess(a)
    \/ \E a \in FailureInputs : RecordFailure(a)
    \/ \E w \in Workers : \E a \in ContextInputs : GetContextDirect(w, a)
    \/ \E w \in Workers : \E a \in ContextInputs : GetContextIssue(w, a)
    \/ \E w \in Workers : \E o \in Outcomes : GetContextResume(w, o)

\* the coordinator as constructed, and no allocation running
CoordinatorInit ==
    /\ OversightInit
    /\ AllocatorUnused

OversightSpec == CoordinatorInit /\ [][OversightNext]_vars

\* a request made with no timeout: nothing ends it but an answer
RequestWithoutTimeout == {}

\* post(..., timeout=self.operator_timeout) and ClientTimeout(total=...):
\* what ends an outstanding request when the service stays silent
TimeoutOutcomes == {[kind |-> "timeout"]}

\* the service may answer or not; the timeout of an outstanding request
\* elapses unless the request has ended before
OversightFairSpec ==
    OversightSpec
    /\ \A w \in Workers :
          WF_vars(\E o \in TimeoutOutcomes : GetContextResume(w, o))

(***************************************************************************)
(* The ledger under threads: a call of observe, record_success or          *)
(* record_failure builds its entry, and another thread may run before the  *)
(* entry is appended.                                                      *)
(***************************************************************************)
RECURSIVE SumWritten(_)
SumWritten(calls) ==
    IF calls = {} THEN 0
    ELSE LET c == CHOOSE x \in calls : TRUE
         IN  written[c] + SumWritten(calls \ {c})

CallsBegun ==
    SumWritten(LedgerCalls) + Cardinality({w \in Workers : wpc[w] = "built"})

ListOf(op) ==
    CASE op = "observe" -> activity_log
      [] op = "record_success" -> successful_approaches
      [] op = "record_failure" -> failed_approaches

\* the entry is built from the arguments of the call
CallBegin(w, c) ==
    /\ wpc[w] = "idle"
    /\ CallsBegun < MaxCalls
    /\ pending' = [pending EXCEPT ![w] =
          [op |-> c.op, entry |-> c.entry, seen |-> Len(ListOf(c.op))]]
    /\ wpc' = [wpc EXCEPT ![w] = "built"]
    /\ UNCHANGED <<storeVars, groups_processed, total_suggestions_made, client,
                   frame, result, ended, loop, written>>
    /\ UNCHANGED allocVars

CallDone(w) ==
    /\ written' = [written EXCEPT
          ![[op |-> pending[w].op, entry |-> pending[w].entry]] = @ + 1]
    /\ pending' = [pending EXCEPT ![w] = NoCall]
    /\ wpc' = [wpc EXCEPT ![w] = "idle"]
    /\ UNCHANGED <<active_profiles, groups_processed, total_suggestions_made,
                   client, frame, result, ended, loop>>
    /\ UNCHANGED allocVars

ObserveAppend(w) ==
    /\ wpc[w] = "built"
    /\ pending[w].op = "observe"
    /\ activity_log' = ListAppend(activity_log, pending[w].seen, pending[w].entry)
    /\ UNCHANGED <<successful_approaches, failed_approaches>>
    /\ CallDone(w)

RecordSuccessAppend(w) ==
    /\ wpc[w] = "built"
    /\ pending[w].op = "record_success"
    /\ successful_approaches' =
          ListAppend(successful_approaches, pending[w].seen, pending[w].entry)
    /\ UNCHANGED <<activity_log, failed_approaches>>
    /\ CallDone(w)

RecordFailureAppend(w) ==
    /\ wpc[w] = "built"
    /\ pending[w].op = "record_failure"
    /\ failed_approaches' =
          ListAppend(failed_approaches, pending[w].seen, pending[w].entry)
    /\ UNCHANGED <<activity_log, successful_approaches>>
    /\ CallDone(w)

LedgerNext ==
    \/ \E w \in Workers : \E c \in LedgerCalls : CallBegin(w, c)
    \/ \E w \in Workers : ObserveAppend(w)
    \/ \E w \in Workers : RecordSuccessAppend(w)
    \/ \E w \in Workers : RecordFailureAppend(w)
    \/ \E a \in ProfileInputs : RecordProfile(a)

LedgerSpec == CoordinatorInit /\ [][LedgerNext]_vars

\* the loop of allocate_stack is straight-line code: it keeps running
AllocFairSpec == AllocSpec /\ WF_vars(AllocNext)

(***************************************************************************)
(* The observation methods called with texts one short of, at, and one     *)
(* over the cap of the field they are stored in                            *)
(***************************************************************************)
AroundCap(cap) ==
    {Text("short", cap - 1), Text("exact", cap), Text("long", cap + 1)}

BoundaryObserveInputs ==
    {[task_id |-> "group_1", stage |-> "failed", model |-> "solver",
      category |-> "spatial", detail |-> t] : t \in AroundCap(DetailCap)}

BoundaryProfileInputs ==
    {[task_id |-> "group_1", profile |-> t] : t \in AroundCap(ProfileCap)}

BoundarySuccessInputs ==
    {[category |-> "spatial", approach |-> Text(src, SuccessApproachCap + k),
      count |-> 3, profile |-> Text(src, SuccessProfileCap - k)] :
        <<src, k>> \in {<<"short", -1>>, <<"exact", 0>>, <<"long", 1>>}}

BoundaryFailureInputs ==
    {[category |-> "spatial", approach |-> t] : t \in AroundCap(FailureApproachCap)}

StoreNext ==
    \/ \E a \in BoundaryObserveInputs : Observe(a)
    \/ \E a \in BoundaryProfileInputs : RecordProfile(a)
    \/ \E a \in BoundarySuccessInputs : RecordSuccess(a)
    \/ \E a \in BoundaryFailureInputs : RecordFailure(a)

StoreSpec == CoordinatorInit /\ [][StoreNext]_vars

(***************************************************************************)
(* get_context asked on stores that already hold records: two approaches   *)
(* of the category asked for and one of a category that differs by case    *)
(* only, in every order                                                    *)
(***************************************************************************)
RecordedSuccesses ==
    {SuccessEntry(a) : a \in
        {[category |-> "spatial", approach |-> Text("bfs", 151), count |-> 3,
          profile |-> EmptyText],
         [category |-> "spatial", approach |-> Text("dfs", 12), count |-> 1,
          profile |-> EmptyText],
         [category |-> "Spatial", approach |-> Text("remap", 40), count |-> 2,
          profile |-> EmptyText]}}

RecordedFailures ==
    {FailureEntry(a) : a \in
        {[category |-> "spatial", approach |-> Text("pixel", 101)],
         [category |-> "spatial", approach |-> Text("flood", 30)],
         [category |-> "Spatial", approach |-> Text("mirror", 30)]}}

SeqsUpTo(S, n) == UNION {[1..k -> S] : k \in 0..n}

Caller == "w1"

\* neither list holds more than half of the records, rounded up
PerList == (MaxRecorded + 1) \div 2

\* a coordinator that has recorded up to MaxRecorded approaches
TierOneInit ==
    /\ activity_log = <<>>
    /\ successful_approaches \in SeqsUpTo(RecordedSuccesses, PerList)
    /\ failed_approaches \in SeqsUpTo(RecordedFailures, PerList)
    /\ Len(successful_approaches) + Len(failed_approaches) <= MaxRecorded
    /\ active_profiles = EmptyDict
    /\ groups_processed = 0
    /\ total_suggestions_made = 0
    /\ client = "none"
    /\ wpc = [w \in Workers |-> "idle"]
    /\ pending = [w \in Workers |-> NoCall]
    /\ frame = [w \in Workers |-> NoFrame]
    /\ result = [w \in Workers |-> NoResult]
    /\ ended = [w \in Workers |-> "none"]
    /\ loop = NoWorker
    /\ written = [c \in LedgerCalls |-> 0]
    /\ AllocatorUnused

TierOneNext ==
    \/ \E a \in ContextInputs : GetContextDirect(Caller, a)
    \/ \E a \in ContextInputs : GetContextIssue(Caller, a)
    \/ \E o \in TimeoutOutcomes : GetContextResume(Caller, o)

TierOneSpec == TierOneInit /\ [][TierOneNext]_vars

(***************************************************************************)
(* Two workers asking for context on stores that hold up to three records: *)
(* no record is added meanwhile, every way a request can end is tried      *)
(***************************************************************************)
BriefingInit ==
    /\ activity_log = <<>>
    /\ successful_approaches \in
          SeqsUpTo({SuccessEntry(a) : a \in SuccessInputs}, 2)
    /\ failed_approaches \in
          SeqsUpTo({FailureEntry(a) : a \in FailureInputs}, 1)
    /\ active_profiles = EmptyDict
    /\ groups_processed = 0
    /\ total_suggestions_made = 0
    /\ client = "none"
    /\ wpc = [w \in Workers |-> "idle"]
    /\ pending = [w \in Workers |-> NoCall]
    /\ frame = [w \in Workers |-> NoFrame]
    /\ result = [w \in Workers |-> NoResult]
    /\ ended = [w \in Workers |-> "none"]
    /\ loop = NoWorker
    /\ written = [c \in LedgerCalls |-> 0]
    /\ AllocatorUnused

BriefingNext ==
    \/ Initialize
    \/ \E w \in Workers : \E a \in ContextInputs : GetContextDirect(w, a)
    \/ \E w \in Workers : \E a \in ContextInputs : GetContextIssue(w, a)
    \/ \E w \in Workers : \E o \in Outcomes : GetContextResume(w, o)

BriefingSpec == BriefingInit /\ [][BriefingNext]_vars

(***************************************************************************)
(* Helpers of the statements below                                         *)
(***************************************************************************)
Range(f) == {f[x] : x \in DOMAIN f}

TierOf(m) == SpecOf(m).tier

RECURSIVE SumOver(_, _)
SumOver(alloc, keys) ==
    IF keys = {} THEN 0
    ELSE LET k == CHOOSE x \in keys : TRUE
         IN  alloc[k].memory_gb + SumOver(alloc, keys \ {k})

\* the sum of memory_gb over the entries of an allocation map
SumMemory(alloc) == SumOver(alloc, DOMAIN alloc)

Occurrences(seq, x) == Cardinality({i \in DOMAIN seq : seq[i] = x})

\* seq with x put in front of position pos (pos = Len(seq) + 1 appends)
InsertAt(seq, pos, x) ==
    [i \in 1..(Len(seq) + 1) |->
        IF i < pos THEN seq[i] ELSE IF i = pos THEN x ELSE seq[i - 1]]

Running == apc \in {"loop", "done"}

(***************************************************************************)
(* C1: the memory_gb of the entries of the map never add up to more than   *)
(* gpu_mem_gb * (1 - reserve_pct), and the running budget 'available' is   *)
(* never negative once the run has begun.                                  *)
(***************************************************************************)
BudgetNeverExceeded ==
    Running =>
        /\ available >= 0
        /\ SumMemory(allocation) <= InitialBudget(hardware)

\* a finished run that committed a model and could not fit another
BudgetExhaustedRun ==
    /\ apc = "done"
    /\ \E m \in DOMAIN allocation : allocation[m].parallel > 0
    /\ \E m \in DOMAIN allocation : allocation[m].parallel = 0

\* the budget left after the first n models of the processing order
RECURSIVE ChargedBefore(_, _, _, _, _)
ChargedBefore(specs, n, hw, minp, avail) ==
    IF n = 0 THEN avail
    ELSE LET left == ChargedBefore(specs, n - 1, hw, minp, avail)
             p == FitParallel(specs[n], hw, minp, left)
         IN  IF p > 0 THEN left - model_memory(specs[n], p) ELSE left

(***************************************************************************)
(* C2: whatever the order of the input list, the models are processed in   *)
(* ascending tier order: the processing order holds the input's names,     *)
(* each as often as the input, sorted by tier, and when a model's turn     *)
(* comes every input model of a smaller tier already has its entry and     *)
(* the budget is the initial one less what the entries before it took.     *)
(***************************************************************************)
TierOrderRespected ==
    Running =>
        /\ Len(model_specs) = Len(models)
        /\ \A m \in ModelNames :
              Occurrences(model_specs, m) = Occurrences(models, m)
        /\ \A i, j \in DOMAIN model_specs :
              TierOf(model_specs[i]) < TierOf(model_specs[j]) => i < j
        /\ DOMAIN allocation = {model_specs[i] : i \in 1..(idx - 1)}
        /\ available = ChargedBefore(model_specs, idx - 1, hardware,
                                     min_parallel, InitialBudget(hardware))

\* a list given out of tier order, at the turn of its second model
UnsortedInputInLoop ==
    /\ apc = "loop"
    /\ idx = 2
    /\ Len(models) >= 2
    /\ \E i, j \in DOMAIN models :
          i < j /\ TierOf(models[i]) > TierOf(models[j])
    /\ allocation[model_specs[1]].parallel > 0

(***************************************************************************)
(* C3: adding a model of a strictly larger tier number anywhere in the     *)
(* list (and so, read backwards, removing it) leaves the entry of every    *)
(* model of a smaller tier number as it was.                               *)
(***************************************************************************)
HigherPriorityUnaffected ==
    apc = "done" =>
        \A x \in ModelNames : \A pos \in 1..(Len(models) + 1) :
            LET longer == allocate_stack(InsertAt(models, pos, x), hardware,
                                         min_parallel).allocation
            IN  \A m \in Range(models) :
                    TierOf(m) < TierOf(x) =>
                        /\ m \in DOMAIN longer
                        /\ longer[m] = allocation[m]

\* a finished run with an allocated model, and a model of a larger tier
\* number that takes memory when put at the head of the list
LowerPriorityAdded ==
    /\ apc = "done"
    /\ \E m \in Range(models) : \E x \in ModelNames :
          /\ TierOf(m) < TierOf(x)
          /\ allocation[m].parallel > 0
          /\ allocate_stack(<<x>> \o models, hardware,
                            min_parallel).allocation[x].parallel > 0

(***************************************************************************)
(* C4: every run ends, and the map it returns has an entry for every name  *)
(* of the list; an entry has parallel 0 exactly when it is marked          *)
(* 'skipped'; a skip leaves the budget as it was and the loop moves on to  *)
(* the next model.                                                         *)
(***************************************************************************)
EveryModelReported ==
    /\ [](apc = "done" =>
            /\ DOMAIN allocation = Range(models)
            /\ \A m \in DOMAIN allocation :
                  /\ allocation[m].parallel = 0 <=>
                        "status" \in DOMAIN allocation[m]
                  /\ "status" \in DOMAIN allocation[m] =>
                        /\ allocation[m].status = "skipped"
                        /\ allocation[m].memory_gb = 0)
    /\ [][(apc = "loop" /\ idx <= Len(model_specs)
            /\ FitParallel(model_specs[idx], hardware, min_parallel,
                           available) = 0)
            => /\ available' = available
               /\ idx' = idx + 1
               /\ apc' = "loop"
               /\ model_specs[idx] \in DOMAIN allocation'
               /\ allocation'[model_specs[idx]].parallel = 0]_vars
    /\ <>(apc = "done")

\* a finished run in which a model was skipped and a later one allocated
SkipThenAllocate ==
    /\ apc = "done"
    /\ \E i, j \in DOMAIN model_specs :
          /\ i < j
          /\ model_specs[i] # model_specs[j]
          /\ allocation[model_specs[i]].parallel = 0
          /\ allocation[model_specs[j]].parallel > 0

\* the list with the unknown name replaced by the name of the default spec
WithDefaultName(ms) ==
    [i \in DOMAIN ms |-> IF ms[i] = UnknownModel THEN "qwen3:4b" ELSE ms[i]]

(***************************************************************************)
(* C5: a name the catalog does not hold gets an entry, and the run is the  *)
(* run of the list with that name replaced by 'qwen3:4b': the same entry   *)
(* for it, the same entries for the others, the same budget left.          *)
(***************************************************************************)
UnknownModelAsDefault ==
    (apc = "done" /\ UnknownModel \in Range(models)) =>
        LET named == allocate_stack(WithDefaultName(models), hardware,
                                    min_parallel)
        IN  /\ UnknownModel \in DOMAIN allocation
            /\ allocation[UnknownModel].tier = MODELS["qwen3:4b"].tier
            /\ allocation[UnknownModel] = named.allocation["qwen3:4b"]
            /\ \A m \in DOMAIN allocation \ {UnknownModel} :
                  allocation[m] = named.allocation[m]
            /\ available = named.available

\* a finished run that allocated the unknown name beside a catalog model
UnknownModelAllocated ==
    /\ apc = "done"
    /\ UnknownModel \in Range(models)
    /\ Cardinality(Range(models)) >= 2
    /\ allocation[UnknownModel].parallel > 0


(***************************************************************************)
(* C6: no request to the generation service is outstanding, and none is    *)
(* issued, while fewer than 2 approaches are recorded; and a get_context   *)
(* call made with at least 2 recorded issues one.                          *)
(***************************************************************************)
BriefingGated ==
    /\ [](\A w \in Workers : wpc[w] = "waiting" => TotalApproaches >= 2)
    /\ [][\A w \in Workers :
            (wpc[w] = "idle" /\ wpc'[w] # "idle") =>
                (wpc'[w] = "waiting" <=> TotalApproaches >= 2)]_vars

\* one call came back without a request, and with the second approach
\* recorded the next call waits for its request
GateJustOpened ==
    \E w1, w2 \in Workers :
        /\ ended[w1] = "no request"
        /\ wpc[w2] = "waiting"
        /\ TotalApproaches = 2

(***************************************************************************)
(* C7: as long as no success and no failure is recorded, whatever was      *)
(* observed and whatever profiles were stored, get_context returns the     *)
(* empty string for every category, without a request.                     *)
(***************************************************************************)
EmptyWithoutApproaches ==
    TotalApproaches = 0 =>
        /\ total_suggestions_made = 0
        /\ \A w \in Workers :
              /\ wpc[w] \in {"idle", "returned"}
              /\ wpc[w] = "returned" =>
                    /\ result[w] = <<>>
                    /\ ended[w] = "no request"

\* a call returned the empty string after an observe and a record_profile
EmptyContextReturned ==
    /\ TotalApproaches = 0
    /\ activity_log # <<>>
    /\ DOMAIN active_profiles # {}
    /\ \E w \in Workers : wpc[w] = "returned" /\ result[w] = <<>>

(***************************************************************************)
(* C8: when the request of tier 2 fails (a timeout, a transport error, a   *)
(* status that is not 200, a body that is not JSON, a payload of the wrong *)
(* type), get_context raises nothing, returns its tier-1 text as it is     *)
(* with an empty briefing, and leaves total_suggestions_made as it was.    *)
(***************************************************************************)
FailureDegradesSilently ==
    [][\A w \in Workers : \A o \in TierTwoFailures :
          GetContextResume(w, o) =>
              /\ wpc'[w] = "returned"
              /\ result'[w] = JoinParts(frame[w].mech_text, EmptyString)
              /\ total_suggestions_made' = total_suggestions_made]_vars

\* a call whose request failed has returned its tier-1 text
FailedBriefingReturned ==
    \E w \in Workers :
        /\ wpc[w] = "returned"
        /\ ended[w] = "failed"
        /\ result[w] # <<>>
        /\ result[w][1].part = "mechanical"

\* the calls that write to the list of op
CallsOf(op) == {c \in LedgerCalls : c.op = op}

(***************************************************************************)
(* C9: whatever the interleaving of the threads, each list of the ledger   *)
(* holds every entry exactly as often as completed calls wrote it, and     *)
(* nothing else: with M calls completed a list has M entries.              *)
(***************************************************************************)
LedgerExact ==
    \A op \in {"observe", "record_success", "record_failure"} :
        /\ Len(ListOf(op)) = SumWritten(CallsOf(op))
        /\ \A c \in CallsOf(op) : Occurrences(ListOf(op), c.entry) = written[c]

\* a thread has built its entry, another thread has appended to the same
\* list since, and two calls are complete
AppendOvertaken ==
    /\ \E w \in Workers :
          /\ wpc[w] = "built"
          /\ pending[w].seen < Len(ListOf(pending[w].op))
    /\ SumWritten(LedgerCalls) >= 2

(***************************************************************************)
(* C10: while a get_context call waits for its request nobody holds the    *)
(* event loop: observe, record_profile, record_success and record_failure  *)
(* can run, an idle worker can begin its own get_context, and every        *)
(* waiting call can be resumed, whichever other calls still wait.          *)
(***************************************************************************)
NothingHeldWhileWaiting ==
    (\E w \in Workers : wpc[w] = "waiting") =>
        /\ loop = NoWorker
        /\ Len(activity_log) < MaxLog => ENABLED (\E a \in ObserveInputs : Observe(a))
        /\ ENABLED (\E a \in ProfileInputs : RecordProfile(a))
        /\ TotalApproaches < MaxApproaches =>
              /\ ENABLED (\E a \in SuccessInputs : RecordSuccess(a))
              /\ ENABLED (\E a \in FailureInputs : RecordFailure(a))
        /\ \A w \in Workers :
              /\ wpc[w] = "idle" =>
                    \A a \in ContextInputs :
                        ENABLED (GetContextDirect(w, a) \/ GetContextIssue(w, a))
              /\ wpc[w] = "waiting" =>
                    \A o \in Outcomes : ENABLED GetContextResume(w, o)

\* two calls wait for their requests at the same time
TwoRequestsOutstanding ==
    /\ \A w \in Workers : wpc[w] = "waiting"
    /\ Len(activity_log) < MaxLog
    /\ TotalApproaches < MaxApproaches


\* the tier-1 lines of a returned context
TierOneOf(res) ==
    IF res # <<>> /\ res[1].part = "mechanical" THEN res[1].lines ELSE <<>>

(***************************************************************************)
(* C11: the tier-1 text of a get_context call is built from the stores as  *)
(* they are when the call is made, before it suspends on its request; it   *)
(* stays as built while the request is outstanding, whatever the other     *)
(* workers append meanwhile, and it is the tier-1 text the call returns.   *)
(***************************************************************************)
TierOneFromSnapshot ==
    [][\A w \in Workers :
          /\ (wpc[w] = "idle" /\ wpc'[w] = "waiting") =>
                \E a \in ContextInputs :
                    /\ frame'[w].prompt.category = a.category
                    /\ frame'[w].mech_text =
                          MechanicalContext(successful_approaches,
                                            failed_approaches, a.category)
          /\ (wpc[w] = "waiting" /\ wpc'[w] = "waiting") =>
                frame'[w].mech_text = frame[w].mech_text
          /\ (wpc[w] = "waiting" /\ wpc'[w] = "returned") =>
                TierOneOf(result'[w]) = frame[w].mech_text]_vars

\* a call has returned after a request, and the stores have since grown so
\* that no category would give the tier-1 text it returned
StaleTierOneReturned ==
    \E w \in Workers :
        /\ wpc[w] = "returned"
        /\ ended[w] \in {"failed", "answered"}
        /\ TierOneOf(result[w]) # <<>>
        /\ \A c \in Categories :
              TierOneOf(result[w]) #
                 MechanicalContext(successful_approaches, failed_approaches, c)

MinOf(a, b) == IF a < b THEN a ELSE b

\* the first min(n, cap) characters of a text of n characters
Prefix(t, cap) == Text(t.src, MinOf(t.len, cap))

Last(seq) == seq[Len(seq)]

(***************************************************************************)
(* C12: no stored text is longer than the cap of its field (300 for the    *)
(* detail of an observation and the approach of a failure, 400 for the     *)
(* approach and the profile of a success, 500 for a cached profile), and a *)
(* text of n characters is stored as its first min(n, cap) characters.     *)
(***************************************************************************)
StoredTextsCapped ==
    /\ [](/\ \A i \in DOMAIN activity_log :
                activity_log[i].detail.len <= 300
          /\ \A i \in DOMAIN successful_approaches :
                /\ successful_approaches[i].approach.len <= 400
                /\ successful_approaches[i].profile.len <= 400
          /\ \A i \in DOMAIN failed_approaches :
                failed_approaches[i].approach.len <= 300
          /\ \A k \in DOMAIN active_profiles : active_profiles[k].len <= 500)
    /\ [][/\ \A a \in BoundaryObserveInputs :
                Observe(a) => Last(activity_log').detail = Prefix(a.detail, 300)
          /\ \A a \in BoundarySuccessInputs :
                RecordSuccess(a) =>
                   /\ Last(successful_approaches').approach =
                         Prefix(a.approach, 400)
                   /\ Last(successful_approaches').profile =
                         Prefix(a.profile, 400)
          /\ \A a \in BoundaryFailureInputs :
                RecordFailure(a) =>
                   Last(failed_approaches').approach = Prefix(a.approach, 300)
          /\ \A a \in BoundaryProfileInputs :
                RecordProfile(a) =>
                   active_profiles'[a.task_id] = Prefix(a.profile, 500)]_vars

\* texts one over their cap were handed to every method and were cut, next
\* to a success text one under its cap that was kept whole
OverlongTextsStored ==
    /\ \E i \in DOMAIN activity_log : activity_log[i].detail = Text("long", 300)
    /\ \E i \in DOMAIN successful_approaches :
          successful_approaches[i].approach = Text("long", 400)
    /\ \E i \in DOMAIN successful_approaches :
          /\ successful_approaches[i].approach = Text("short", 399)
          /\ successful_approaches[i].profile = Text("short", 400)
    /\ \E i \in DOMAIN failed_approaches :
          failed_approaches[i].approach = Text("long", 300)
    /\ "group_1" \in DOMAIN active_profiles
    /\ active_profiles["group_1"] = Text("long", 500)

\* a returned context that holds no briefing
TierOneOnly(res) == \A i \in DOMAIN res : res[i].part = "mechanical"

(***************************************************************************)
(* C13: every get_context call that suspends on its request returns: when  *)
(* the service does not answer, the timeout of the request elapses, the    *)
(* briefing is empty and the call returns its tier-1 text alone.  No call  *)
(* stays suspended for ever.                                               *)
(***************************************************************************)
EveryCallReturns ==
    /\ \A w \in Workers : (wpc[w] = "waiting") ~> (wpc[w] = "returned")
    /\ [][\A w \in Workers : \A o \in TimeoutOutcomes :
             GetContextResume(w, o) =>
                /\ wpc'[w] = "returned"
                /\ TierOneOnly(result'[w])
                /\ TierOneOf(result'[w]) = frame[w].mech_text
                /\ total_suggestions_made' = total_suggestions_made]_vars

\* both calls suspended on a request that failed, and both have come back
\* with their tier-1 text alone
BothTimedOut ==
    /\ \A w \in Workers :
          /\ wpc[w] = "returned"
          /\ ended[w] = "failed"
          /\ TierOneOnly(result[w])
          /\ result[w] # <<>>
    /\ total_suggestions_made = 0
    /\ groups_processed = 2

MaxOf(S) == CHOOSE x \in S : \A y \in S : y <= x

\* x brought into lo..hi
Clamp(x, lo, hi) == IF x < lo THEN lo ELSE IF x > hi THEN hi ELSE x

\* the share of the peak a tier is aimed at, fractions cut off
TierShare(tier, peak) ==
    CASE tier = 1 -> peak
      [] tier = 2 -> (3 * peak) \div 4
      [] tier = 3 -> peak \div 2
      [] OTHER -> (33 * peak) \div 100

\* the candidate degrees a model may be given with avail left
Eligible(m, hw, minp, avail) ==
    {p \in {24, 20, 16, 12, 8, 6, 4, 2, 1} :
        /\ p >= minp
        /\ p <= Clamp(TierShare(TierOf(m), hw.peak_parallel), minp,
                      hw.max_parallel)
        /\ SpecOf(m).base_gb + p * SpecOf(m).kv_gb <= avail}

(***************************************************************************)
(* C14: the degree a model is given is the largest of 24, 20, 16, 12, 8,   *)
(* 6, 4, 2, 1 that is at least min_parallel, at most the model's target    *)
(* and whose memory fits the budget left at its turn, and 0 when there is  *)
(* none; the target is the tier's share of the peak (all, 3/4, 1/2, 0.33,  *)
(* cut to an integer) clamped to min_parallel..max_parallel.  On 24 GB     *)
(* with a reserve of 0.2, peak 4 and max 8, a lone tier-1 model of 2.5 GB  *)
(* and 0.3 GB per slot gets degree 4 and 3.7 GB, and 15.5 GB are left.     *)
(***************************************************************************)
DegreeIsLargestFit ==
    /\ [][(apc = "loop" /\ idx <= Len(model_specs) /\ idx' = idx + 1) =>
             LET m == model_specs[idx]
                 fits == Eligible(m, hardware, min_parallel, available)
             IN  allocation'[m].parallel =
                    IF fits = {} THEN 0 ELSE MaxOf(fits)]_vars
    /\ [](( /\ apc = "done"
            /\ models = <<"executive">>
            /\ hardware = [gpu_mem_gb |-> 24, peak_parallel |-> 4,
                           max_parallel |-> 8, reserve_pct |-> 20]
            /\ min_parallel = 1) =>
               /\ allocation["executive"].parallel = 4
               /\ allocation["executive"].memory_gb = 370
               /\ available = 1550)

\* a finished run in which one model got its whole target and the last one
\* a smaller, nonzero degree because the budget was short
DegreeCutByBudget ==
    /\ apc = "done"
    /\ \E m1, m2 \in DOMAIN allocation :
          /\ allocation[m1].parallel =
                Clamp(TierShare(TierOf(m1), hardware.peak_parallel),
                      min_parallel, hardware.max_parallel)
          /\ allocation[m1].parallel > 1
          /\ m2 = model_specs[Len(model_specs)]
          /\ allocation[m2].parallel > 0
          /\ allocation[m2].parallel <
                Clamp(TierShare(TierOf(m2), hardware.peak_parallel),
                      min_parallel, hardware.max_parallel)
          /\ allocation[m2].parallel \in {24, 20, 16, 12, 8, 6, 4, 2, 1}
          /\ \A p \in {24, 20, 16, 12, 8, 6, 4, 2, 1} :
                (p >= min_parallel /\ p > allocation[m2].parallel
                 /\ p <= Clamp(TierShare(TierOf(m2), hardware.peak_parallel),
                               min_parallel, hardware.max_parallel))
                => SpecOf(m2).base_gb + p * SpecOf(m2).kv_gb >
                      available + SpecOf(m2).base_gb
                         + allocation[m2].parallel * SpecOf(m2).kv_gb

(***************************************************************************)
(* C15: a model is skipped only when the capacity is used up: whatever     *)
(* min_parallel is, a model for which some candidate degree of at least    *)
(* min_parallel has a memory that fits the budget left at its turn gets a  *)
(* nonzero degree.                                                         *)
(***************************************************************************)
SkippedOnlyWhenExhausted ==
    [][(apc = "loop" /\ idx <= Len(model_specs) /\ idx' = idx + 1) =>
          LET m == model_specs[idx]
          IN  (\E p \in {24, 20, 16, 12, 8, 6, 4, 2, 1} :
                  /\ p >= min_parallel
                  /\ SpecOf(m).base_gb + p * SpecOf(m).kv_gb <= available)
              => allocation'[m].parallel > 0]_vars

\* the positions of the records of a category, by exact equality of names
Matching(seq, category) == {i \in DOMAIN seq : seq[i].category = category}

\* the oldest three of them
OldestThree(seq, category) ==
    {i \in Matching(seq, category) :
        Cardinality({j \in Matching(seq, category) : j < i}) < 3}

\* the k-th smallest member of a set of positions
Kth(S, k) == CHOOSE i \in S : Cardinality({j \in S : j < i}) = k - 1

\* the tier-1 lines as described: a heading and one line per listed success,
\* then a heading and one line per listed failure
ListedTierOne(successes, failures, category) ==
    LET ss == OldestThree(successes, category)
        fs == OldestThree(failures, category)
    IN  (IF ss = {} THEN <<>>
         ELSE <<[line |-> "Prior successes for similar tasks:"]>> \o
              [k \in 1..Cardinality(ss) |->
                  [line |-> "success",
                   approach |-> Prefix(successes[Kth(ss, k)].approach, 150),
                   count |-> successes[Kth(ss, k)].count]])
        \o
        (IF fs = {} THEN <<>>
         ELSE <<[line |-> "Prior failures (avoid):"]>> \o
              [k \in 1..Cardinality(fs) |->
                  [line |-> "failure",
                   approach |-> Prefix(failures[Kth(fs, k)].approach, 100)]])

(***************************************************************************)
(* C16: the tier-1 text of get_context lists the first 3 successes and the *)
(* first 3 failures, in the order they were recorded, among the records    *)
(* whose category is exactly (case included) the category asked for.  A    *)
(* record of another category, and a record of the same category behind    *)
(* the third, never changes the text.                                      *)
(***************************************************************************)
TierOneListsOldestThree ==
    /\ [][\A a \in ContextInputs :
            /\ GetContextDirect(Caller, a) =>
                  TierOneOf(result'[Caller]) =
                     ListedTierOne(successful_approaches, failed_approaches,
                                   a.category)
            /\ GetContextIssue(Caller, a) =>
                  frame'[Caller].mech_text =
                     ListedTierOne(successful_approaches, failed_approaches,
                                   a.category)]_vars
    /\ [][(wpc[Caller] = "waiting" /\ wpc'[Caller] = "returned") =>
             TierOneOf(result'[Caller]) = frame[Caller].mech_text]_vars
    /\ [](\A c \in Categories :
            /\ \A e \in RecordedSuccesses :
                  (e.category # c
                   \/ Cardinality(Matching(successful_approaches, c)) >= 3)
                  => MechanicalContext(Append(successful_approaches, e),
                                       failed_approaches, c)
                     = MechanicalContext(successful_approaches,
                                         failed_approaches, c)
            /\ \A e \in RecordedFailures :
                  (e.category # c
                   \/ Cardinality(Matching(failed_approaches, c)) >= 3)
                  => MechanicalContext(successful_approaches,
                                       Append(failed_approaches, e), c)
                     = MechanicalContext(successful_approaches,
                                         failed_approaches, c))

\* a context was returned that lists three successes and three failures
\* while the stores hold a fourth success of the category, recorded last
\* and unlike the three listed
FourthRecordLeftOut ==
    /\ wpc[Caller] = "returned"
    /\ Len(TierOneOf(result[Caller])) = 8
    /\ Cardinality(Matching(successful_approaches, "spatial")) = 4
    /\ Cardinality(Matching(failed_approaches, "spatial")) = 3
    /\ successful_approaches[4].approach.src = "dfs"
    /\ \A i \in 2..4 : TierOneOf(result[Caller])[i].approach.src = "bfs"

\* a returned context that holds a briefing
HasBriefing(res) == \E i \in DOMAIN res : res[i].part = "briefing"

\* the briefing of a returned context
BriefingOf(res) == res[Len(res)].text

\* what a resumed call does when the generated text counts as long enough
\* (long) or not
CountedIff(w, long, text) ==
    IF long
    THEN /\ total_suggestions_made' = total_suggestions_made + 1
         /\ wpc'[w] = "returned"
         /\ HasBriefing(result'[w])
         /\ BriefingOf(result'[w]) = [marker |-> "[Operator notes]", text |-> text]
    ELSE /\ total_suggestions_made' = total_suggestions_made
         /\ wpc'[w] = "returned"
         /\ ~HasBriefing(result'[w])

\* the counter never goes down, and it is the number of calls that have
\* returned a briefing
CounterTracksBriefings ==
    /\ [][total_suggestions_made' >= total_suggestions_made]_vars
    /\ [](total_suggestions_made =
             Cardinality({w \in Workers :
                             wpc[w] = "returned" /\ HasBriefing(result[w])}))

(***************************************************************************)
(* C17: in a get_context call that attempts tier 2, the counter            *)
(* total_suggestions_made goes up by exactly 1 and the briefing, behind    *)
(* its marker, is part of the result if and only if the generated text,    *)
(* once stripped of the whitespace around it, is longer than 20            *)
(* characters; otherwise the briefing is empty and the counter is left     *)
(* alone.  However the calls interleave, the counter never goes down and   *)
(* is the number of calls that returned a briefing.                        *)
(***************************************************************************)
CountedIffStrippedOverTwenty ==
    /\ [][\A w \in Workers : \A o \in Outcomes :
             (wpc[w] = "waiting" /\ wpc'[w] # "waiting"
              /\ GetContextResume(w, o)) =>
                LET g == Generate(frame[w].transport, o)
                IN  CountedIff(w, g.type = "str" /\ g.stripped > 20,
                               IF g.type = "str" THEN Text(g.src, g.stripped)
                               ELSE EmptyText)]_vars
    /\ CounterTracksBriefings

\* C17 as first stated: the length that decides is that of the text as the
\* generator returned it
CountedIffOverTwenty ==
    /\ [][\A w \in Workers : \A o \in Outcomes :
             (wpc[w] = "waiting" /\ wpc'[w] # "waiting"
              /\ GetContextResume(w, o)) =>
                LET g == Generate(frame[w].transport, o)
                IN  CountedIff(w, g.type = "str" /\ g.len > 20,
                               IF g.type = "str" THEN Text(g.src, g.stripped)
                               ELSE EmptyText)]_vars
    /\ CounterTracksBriefings

\* both calls got an answer; one returned a briefing and was counted, the
\* other returned none
OneBriefingOfTwoAnswers ==
    /\ \A w \in Workers : wpc[w] = "returned" /\ ended[w] = "answered"
    /\ \E w \in Workers : HasBriefing(result[w])
    /\ \E w \in Workers : ~HasBriefing(result[w])
    /\ total_suggestions_made = 1

\* a field of a response that holds a text of at least one character
NonEmptyText(v) == v.type = "str" /\ v.len > 0

\* a field that is missing, null or the empty text
EmptyField(v) == v \in {Absent, PyNone, PyStr("", 0, 0)}

\* what generate is to return for a 200 response, whatever the transport
FieldToReturn(o) ==
    IF NonEmptyText(o.data.response) THEN o.data.response
    ELSE o.data.thinking

(***************************************************************************)
(* C18: for every successful response, on the httpx path and on the        *)
(* aiohttp path alike, generate returns the text of the reasoning field    *)
(* when the primary field is empty and the reasoning field is not, and the *)
(* primary field when that is not empty; the call that resumes builds its  *)
(* briefing from that text.                                                *)
(***************************************************************************)
ReasoningFallbackOnEveryPath ==
    [][\A w \in Workers : \A o \in Outcomes :
          ( /\ wpc[w] = "waiting"
            /\ GetContextResume(w, o)
            /\ o.kind = "ok"
            /\ \/ NonEmptyText(o.data.response)
               \/ EmptyField(o.data.response) /\ NonEmptyText(o.data.thinking))
          => /\ Generate(frame[w].transport, o) = FieldToReturn(o)
             /\ result'[w] =
                   JoinParts(frame[w].mech_text,
                             generate_briefing(FieldToReturn(o)).value)]_vars

(***************************************************************************)
(* C19: when allocate_stack returns, the budget it started from less the   *)
(* memory_gb of the entries of the returned map is the budget left over,   *)
(* for every list of models, a list that names a model twice included.     *)
(***************************************************************************)
MapAccountsForBudget ==
    apc = "done" =>
        InitialBudget(hardware) - SumMemory(allocation) = available

====
